---------------------------- MODULE Spec2Model ----------------------------
(***************************************************************************)
(* A model of lockbox.py: the time-locked container format, its write and  *)
(* read protocols, and the disk and time source they talk to.              *)
(*                                                                         *)
(* Representation.  A Python `bytes` value is a sequence of integers in    *)
(* 0..255; a Python `str` is a sequence of code points.  A datetime is a   *)
(* pair <<day, second>>: the proleptic Gregorian ordinal of the date and   *)
(* the second of the day (a single count of seconds does not fit the       *)
(* integers of TLC for every year strptime's %Y accepts).                  *)
(*                                                                         *)
(* Library primitives.  SHA-256, HMAC-SHA256 and AES are library code.     *)
(*   - SHA-256 is used only on password || suffix; it is modelled as an    *)
(*     injective embedding of such short inputs into 32 bytes.             *)
(*   - HMAC-SHA256 is modelled as the ideal MAC functionality: `issued`    *)
(*     lists the (key, message) pairs a tag was computed for, the tag of   *)
(*     the i-th pair is Codeword(i), and a tag verifies for (key, message) *)
(*     exactly when it is the codeword of that pair.  Codewords differ     *)
(*     from each other in every position.                                  *)
(*   - AES-CBC is modelled as CBC chaining over a keyed byte-wise block    *)
(*     permutation (addition modulo 256 takes the place of xor and of the  *)
(*     block cipher): a bijection on block sequences for each key and IV.  *)
(***************************************************************************)
EXTENDS Integers, Sequences, FiniteSets, TLC

\* AES.block_size
BLOCK_SIZE == 16

\* SHA256.digest_size
HMAC_SIZE == 32

\* b'\n', the separator between the expiry line and the encrypted blob
NEWLINE == 10

\* ':', the separator of the three parts of the plaintext
COLON == 58

\* '.', the extension separator of os.path.splitext
DOT == 46

\* '/', os.sep of os.path.basename; also the date separator of the format
SLASH == 47

\* '=', the base64 padding character
B64PAD == 61

(***************************************************************************)
(* Sequence helpers                                                        *)
(***************************************************************************)

\* s[a..b] with Python's clamping: empty when a > b
Slice(s, a, b) == IF a > b THEN <<>> ELSE SubSeq(s, a, b)

\* n copies of x
Repeat(x, n) == [i \in 1..n |-> x]

\* the smallest index >= from at which s holds x, or 0
RECURSIVE IndexFrom(_, _, _)
IndexFrom(s, x, from) ==
    IF from > Len(s) THEN 0
    ELSE IF s[from] = x THEN from
    ELSE IndexFrom(s, x, from + 1)

\* the largest index at which s holds x, or 0 (str.rfind)
RECURSIVE LastIndexOf(_, _, _)
LastIndexOf(s, x, from) ==
    IF from < 1 THEN 0
    ELSE IF s[from] = x THEN from
    ELSE LastIndexOf(s, x, from - 1)

\* the number of positions of s holding x
RECURSIVE CountOf(_, _, _)
CountOf(s, x, from) ==
    IF from > Len(s) THEN 0
    ELSE (IF s[from] = x THEN 1 ELSE 0) + CountOf(s, x, from + 1)

IsBytes(s) == \A i \in 1..Len(s) : s[i] \in 0..255

(***************************************************************************)
(* str.encode('utf-8') / bytes.decode('utf-8') / 'ascii'                   *)
(***************************************************************************)

\* the UTF-8 encoding of one code point (surrogates, which Python refuses,
\* are not among the code points the model draws)
Utf8Char(cp) ==
    IF cp < 128 THEN <<cp>>
    ELSE IF cp < 2048 THEN <<192 + (cp \div 64), 128 + (cp % 64)>>
    ELSE IF cp < 65536
         THEN <<224 + (cp \div 4096), 128 + ((cp \div 64) % 64), 128 + (cp % 64)>>
    ELSE <<240 + (cp \div 262144), 128 + ((cp \div 4096) % 64),
           128 + ((cp \div 64) % 64), 128 + (cp % 64)>>

RECURSIVE Utf8EncodeFrom(_, _)
Utf8EncodeFrom(s, i) ==
    IF i > Len(s) THEN <<>> ELSE Utf8Char(s[i]) \o Utf8EncodeFrom(s, i + 1)

\* str.encode('utf-8')
Utf8Encode(s) == Utf8EncodeFrom(s, 1)

IsCont(b) == b >= 128 /\ b <= 191

\* the length of the well-formed UTF-8 sequence starting at b[i], or 0
Utf8SeqLen(b, i) ==
    LET n  == Len(b)
        b0 == b[i]
        c1 == IF i + 1 <= n THEN b[i + 1] ELSE 0
        c2 == IF i + 2 <= n THEN b[i + 2] ELSE 0
        c3 == IF i + 3 <= n THEN b[i + 3] ELSE 0
    IN  IF b0 < 128 THEN 1
        ELSE IF b0 >= 194 /\ b0 <= 223 THEN (IF IsCont(c1) THEN 2 ELSE 0)
        ELSE IF b0 = 224 THEN (IF c1 >= 160 /\ c1 <= 191 /\ IsCont(c2) THEN 3 ELSE 0)
        ELSE IF b0 = 237 THEN (IF c1 >= 128 /\ c1 <= 159 /\ IsCont(c2) THEN 3 ELSE 0)
        ELSE IF b0 >= 225 /\ b0 <= 239 THEN (IF IsCont(c1) /\ IsCont(c2) THEN 3 ELSE 0)
        ELSE IF b0 = 240
             THEN (IF c1 >= 144 /\ c1 <= 191 /\ IsCont(c2) /\ IsCont(c3) THEN 4 ELSE 0)
        ELSE IF b0 >= 241 /\ b0 <= 243
             THEN (IF IsCont(c1) /\ IsCont(c2) /\ IsCont(c3) THEN 4 ELSE 0)
        ELSE IF b0 = 244
             THEN (IF c1 >= 128 /\ c1 <= 143 /\ IsCont(c2) /\ IsCont(c3) THEN 4 ELSE 0)
        ELSE 0

\* the code point of the k-byte sequence starting at b[i]
Utf8CodePoint(b, i, k) ==
    IF k = 1 THEN b[i]
    ELSE IF k = 2 THEN (b[i] - 192) * 64 + (b[i + 1] - 128)
    ELSE IF k = 3 THEN (b[i] - 224) * 4096 + (b[i + 1] - 128) * 64 + (b[i + 2] - 128)
    ELSE (b[i] - 240) * 262144 + (b[i + 1] - 128) * 4096
         + (b[i + 2] - 128) * 64 + (b[i + 3] - 128)

RECURSIVE Utf8ValidFrom(_, _)
Utf8ValidFrom(b, i) ==
    IF i > Len(b) THEN TRUE
    ELSE LET k == Utf8SeqLen(b, i)
         IN  k > 0 /\ Utf8ValidFrom(b, i + k)

RECURSIVE Utf8DecodeFrom(_, _)
Utf8DecodeFrom(b, i) ==
    IF i > Len(b) THEN <<>>
    ELSE LET k == Utf8SeqLen(b, i)
         IN  <<Utf8CodePoint(b, i, k)>> \o Utf8DecodeFrom(b, i + k)

\* bytes.decode('utf-8'): [ok |-> FALSE] stands for UnicodeDecodeError
Utf8Decode(b) ==
    IF Utf8ValidFrom(b, 1) THEN [ok |-> TRUE, val |-> Utf8DecodeFrom(b, 1)]
    ELSE [ok |-> FALSE, val |-> <<>>]

\* whether str.encode('ascii') / bytes.decode('ascii') succeeds
IsAscii(s) == \A i \in 1..Len(s) : s[i] < 128

(***************************************************************************)
(* base64.b64encode / base64.b64decode                                     *)
(***************************************************************************)

\* the character of a 6-bit value in the standard alphabet
B64Char(v) ==
    IF v < 26 THEN 65 + v
    ELSE IF v < 52 THEN 97 + (v - 26)
    ELSE IF v < 62 THEN 48 + (v - 52)
    ELSE IF v = 62 THEN 43
    ELSE 47

\* the 6-bit value of a character, or 64 when it is outside the alphabet
B64Val(c) ==
    IF c >= 65 /\ c <= 90 THEN c - 65
    ELSE IF c >= 97 /\ c <= 122 THEN c - 97 + 26
    ELSE IF c >= 48 /\ c <= 57 THEN c - 48 + 52
    ELSE IF c = 43 THEN 62
    ELSE IF c = 47 THEN 63
    ELSE 64

RECURSIVE B64EncodeFrom(_, _)
B64EncodeFrom(b, i) ==
    LET n == Len(b) - i + 1
    IN  IF n <= 0 THEN <<>>
        ELSE IF n = 1
             THEN <<B64Char(b[i] \div 4), B64Char((b[i] % 4) * 16), B64PAD, B64PAD>>
        ELSE IF n = 2
             THEN <<B64Char(b[i] \div 4),
                    B64Char((b[i] % 4) * 16 + (b[i + 1] \div 16)),
                    B64Char((b[i + 1] % 16) * 4), B64PAD>>
        ELSE <<B64Char(b[i] \div 4),
               B64Char((b[i] % 4) * 16 + (b[i + 1] \div 16)),
               B64Char((b[i + 1] % 16) * 4 + (b[i + 2] \div 64)),
               B64Char(b[i + 2] % 64)>> \o B64EncodeFrom(b, i + 3)

\* base64.b64encode(file_content).decode('ascii')
B64Encode(b) == B64EncodeFrom(b, 1)

\* binascii.a2b_base64 without strict mode, one character at a time: characters
\* outside the alphabet are skipped, a '=' ends the input once the quad holds
\* two or three characters and enough pads followed, and a quad left open at
\* the end is binascii.Error
RECURSIVE A2bFrom(_, _, _, _, _, _)
A2bFrom(s, i, quad, left, pads, acc) ==
    IF i > Len(s)
    THEN [ok |-> quad = 0, val |-> IF quad = 0 THEN acc ELSE <<>>]
    ELSE IF s[i] = B64PAD
         THEN IF quad >= 2 /\ quad + pads + 1 >= 4
              THEN [ok |-> TRUE, val |-> acc]
              ELSE A2bFrom(s, i + 1, quad, left, pads + 1, acc)
    ELSE LET v == B64Val(s[i])
         IN  IF v >= 64 THEN A2bFrom(s, i + 1, quad, left, pads, acc)
             ELSE IF quad = 0 THEN A2bFrom(s, i + 1, 1, v, 0, acc)
             ELSE IF quad = 1
                  THEN A2bFrom(s, i + 1, 2, v % 16, 0,
                               Append(acc, left * 4 + (v \div 16)))
             ELSE IF quad = 2
                  THEN A2bFrom(s, i + 1, 3, v % 4, 0,
                               Append(acc, left * 16 + (v \div 4)))
             ELSE A2bFrom(s, i + 1, 0, 0, 0, Append(acc, left * 64 + v))

\* base64.b64decode(s) of a str: s.encode('ascii') (ValueError when it cannot),
\* then a2b_base64; [ok |-> FALSE] stands for ValueError / binascii.Error
B64Decode(s) ==
    IF ~IsAscii(s) THEN [ok |-> FALSE, val |-> <<>>]
    ELSE A2bFrom(s, 1, 0, 0, 0, <<>>)

(***************************************************************************)
(* datetime.strptime(s, '%d/%m/%Y %H:%M:%S')                               *)
(***************************************************************************)

IsDigit(c) == c >= 48 /\ c <= 57

\* the ASCII characters the regular expression's \s matches
IsSpace(c) == c \in {9, 10, 11, 12, 13, 28, 29, 30, 31, 32}

DigitAt(s, i) == i >= 1 /\ i <= Len(s) /\ IsDigit(s[i])

CharAt(s, i, c) == i >= 1 /\ i <= Len(s) /\ s[i] = c

\* the value of the k digits starting at s[i]
RECURSIVE Number(_, _, _)
Number(s, i, k) ==
    IF k = 0 THEN 0 ELSE Number(s, i, k - 1) * 10 + (s[i + k - 1] - 48)

\* One numeric field that a literal separator follows: [ok, val, next], next the
\* index after the separator.  The two-digit form is tried first; a
\* one-digit field is one of the digits lo1..9.  blank says whether the
\* field also has the form ' ' digit (%d only).
Field(s, i, sep, lo2, hi2, lo1, blank) ==
    IF DigitAt(s, i) /\ DigitAt(s, i + 1) /\ CharAt(s, i + 2, sep)
       /\ Number(s, i, 2) >= lo2 /\ Number(s, i, 2) <= hi2
    THEN [ok |-> TRUE, val |-> Number(s, i, 2), next |-> i + 3]
    ELSE IF DigitAt(s, i) /\ CharAt(s, i + 1, sep) /\ Number(s, i, 1) >= lo1
    THEN [ok |-> TRUE, val |-> Number(s, i, 1), next |-> i + 2]
    ELSE IF blank /\ CharAt(s, i, 32) /\ DigitAt(s, i + 1) /\ CharAt(s, i + 2, sep)
            /\ Number(s, i + 1, 1) >= 1
    THEN [ok |-> TRUE, val |-> Number(s, i + 1, 1), next |-> i + 3]
    ELSE [ok |-> FALSE, val |-> 0, next |-> 0]

\* %S, the last field: it must end the string ("unconverted data remains")
LastField(s, i) ==
    IF DigitAt(s, i) /\ DigitAt(s, i + 1) /\ Len(s) = i + 1 /\ Number(s, i, 2) <= 61
    THEN [ok |-> TRUE, val |-> Number(s, i, 2)]
    ELSE IF DigitAt(s, i) /\ Len(s) = i
    THEN [ok |-> TRUE, val |-> Number(s, i, 1)]
    ELSE [ok |-> FALSE, val |-> 0]

\* the index of the first character at or after i that is no whitespace
RECURSIVE SkipSpace(_, _)
SkipSpace(s, i) ==
    IF i <= Len(s) /\ IsSpace(s[i]) THEN SkipSpace(s, i + 1) ELSE i

IsLeap(y) == (y % 4 = 0) /\ ((y % 100 # 0) \/ (y % 400 = 0))

DaysInMonth(y, m) ==
    IF m = 2 THEN (IF IsLeap(y) THEN 29 ELSE 28)
    ELSE IF m \in {4, 6, 9, 11} THEN 30
    ELSE 31

RECURSIVE DaysBeforeMonth(_, _)
DaysBeforeMonth(y, m) ==
    IF m <= 1 THEN 0 ELSE DaysBeforeMonth(y, m - 1) + DaysInMonth(y, m - 1)

\* date.toordinal()
Ordinal(y, m, d) ==
    365 * (y - 1) + ((y - 1) \div 4) - ((y - 1) \div 100) + ((y - 1) \div 400)
    + DaysBeforeMonth(y, m) + d

NoDate == [ok |-> FALSE, dt |-> <<0, 0>>]

\* datetime.strptime(s, '%d/%m/%Y %H:%M:%S'): [ok |-> FALSE] stands for
\* ValueError (no match, unconverted data, or a date datetime refuses)
ParseExpiry(s) ==
    LET d  == Field(s, 1, SLASH, 1, 31, 1, TRUE)
        mo == Field(s, d.next, SLASH, 1, 12, 1, FALSE)
        yi == mo.next
        yOk == DigitAt(s, yi) /\ DigitAt(s, yi + 1) /\ DigitAt(s, yi + 2)
               /\ DigitAt(s, yi + 3)
        y  == Number(s, yi, 4)
        hi == SkipSpace(s, yi + 4)
        h  == Field(s, hi, COLON, 0, 23, 0, FALSE)
        mi == Field(s, h.next, COLON, 0, 59, 0, FALSE)
        se == LastField(s, mi.next)
    IN  IF ~d.ok THEN NoDate
        ELSE IF ~mo.ok THEN NoDate
        ELSE IF ~yOk THEN NoDate
        ELSE IF hi = yi + 4 THEN NoDate
        ELSE IF ~h.ok THEN NoDate
        ELSE IF ~mi.ok THEN NoDate
        ELSE IF ~se.ok THEN NoDate
        ELSE IF y < 1 \/ d.val > DaysInMonth(y, mo.val) \/ se.val > 59 THEN NoDate
        ELSE [ok |-> TRUE,
              dt |-> <<Ordinal(y, mo.val, d.val),
                       h.val * 3600 + mi.val * 60 + se.val>>]

\* a < b on datetimes
DtLess(a, b) == a[1] < b[1] \/ (a[1] = b[1] /\ a[2] < b[2])

\* a datetime moved by off seconds, |off| less than a day
DtShift(a, off) ==
    LET t == a[2] + off
    IN  IF t < 0 THEN <<a[1] - 1, t + 86400>>
        ELSE IF t >= 86400 THEN <<a[1] + 1, t - 86400>>
        ELSE <<a[1], t>>

(***************************************************************************)
(* Keys, cipher, MAC                                                       *)
(***************************************************************************)

\* b'enc' and b'mac'
EncSuffix == <<101, 110, 99>>
MacSuffix == <<109, 97, 99>>

\* hashlib.sha256(x).digest() on the short inputs of derive_keys: x, zero
\* filled, with its length in the last byte (injective for Len(x) < 32)
SHA256(x) ==
    [i \in 1..HMAC_SIZE |->
        IF i <= Len(x) THEN x[i] ELSE IF i = HMAC_SIZE THEN Len(x) ELSE 0]

\* derive_keys with a MAC key that does not depend on the password
derive_keys_shared_mac(password) ==
    [key_enc |-> SHA256(Utf8Encode(password) \o EncSuffix),
     key_mac |-> SHA256(MacSuffix)]

\* derive_keys(password)
derive_keys(password) ==
    LET pw == Utf8Encode(password)
    IN  [key_enc |-> SHA256(pw \o EncSuffix), key_mac |-> SHA256(pw \o MacSuffix)]

\* Crypto.Util.Padding.pad(data, BLOCK_SIZE): PKCS#7
pad(data) ==
    LET n == BLOCK_SIZE - (Len(data) % BLOCK_SIZE)
    IN  data \o Repeat(n, n)

\* Crypto.Util.Padding.unpad(padded, BLOCK_SIZE): [ok |-> FALSE] is ValueError
unpad(padded) ==
    LET n == Len(padded)
        k == IF n = 0 THEN 0 ELSE padded[n]
    IN  IF n = 0 \/ n % BLOCK_SIZE # 0 THEN [ok |-> FALSE, val |-> <<>>]
        ELSE IF k < 1 \/ k > BLOCK_SIZE THEN [ok |-> FALSE, val |-> <<>>]
        ELSE IF \E i \in (n - k + 1)..n : padded[i] # k
             THEN [ok |-> FALSE, val |-> <<>>]
        ELSE [ok |-> TRUE, val |-> Slice(padded, 1, n - k)]

\* the byte the keyed block permutation adds at position k of a block
KeyByte(key, k) ==
    LET j == ((k - 1) % BLOCK_SIZE) + 1
    IN  key[j] + key[j + BLOCK_SIZE]

\* cipher.encrypt(padded) in CBC mode: each block is chained with the
\* previous ciphertext block (the IV for the first) and then permuted
RECURSIVE CBCEncryptFrom(_, _, _, _, _)
CBCEncryptFrom(key, iv, padded, k, acc) ==
    IF k > Len(padded) THEN acc
    ELSE LET prev == IF k <= BLOCK_SIZE THEN iv[k] ELSE acc[k - BLOCK_SIZE]
         IN  CBCEncryptFrom(key, iv, padded, k + 1,
                 Append(acc, (padded[k] + prev + KeyByte(key, k)) % 256))

CBCEncrypt(key, iv, padded) == CBCEncryptFrom(key, iv, padded, 1, <<>>)

\* cipher.decrypt(ct) in CBC mode
CBCDecrypt(key, iv, ct) ==
    [k \in 1..Len(ct) |->
        LET prev == IF k <= BLOCK_SIZE THEN iv[k] ELSE ct[k - BLOCK_SIZE]
        IN  (ct[k] + 768 - prev - KeyByte(key, k)) % 256]

\* encrypt_secret with an all-zero IV in place of the random one
encrypt_secret_fixed_iv(plaintext, key_enc, iv) ==
    LET zero == [i \in 1..BLOCK_SIZE |-> 0]
    IN  zero \o CBCEncrypt(key_enc, zero, pad(Utf8Encode(plaintext)))

\* encrypt_secret(plaintext, key_enc), with the IV get_random_bytes returned
encrypt_secret(plaintext, key_enc, iv) ==
    iv \o CBCEncrypt(key_enc, iv, pad(Utf8Encode(plaintext)))

\* decrypt_secret with its ValueError swallowed: an empty text is returned
decrypt_secret_lenient(blob, key_enc) ==
    LET iv    == Slice(blob, 1, BLOCK_SIZE)
        ct    == Slice(blob, BLOCK_SIZE + 1, Len(blob))
        plain == IF Len(blob) >= BLOCK_SIZE /\ Len(ct) % BLOCK_SIZE = 0
                 THEN unpad(CBCDecrypt(key_enc, iv, ct))
                 ELSE [ok |-> FALSE, val |-> <<>>]
    IN  IF plain.ok /\ Utf8Decode(plain.val).ok
        THEN Utf8Decode(plain.val)
        ELSE [ok |-> TRUE, val |-> <<>>]

\* decrypt_secret(blob, key_enc): [ok |-> FALSE] stands for the ValueError of
\* AES.new (IV not 16 bytes), cipher.decrypt (length no multiple of the block
\* size), unpad, or decode('utf-8')
decrypt_secret(blob, key_enc) ==
    LET iv     == Slice(blob, 1, IF Len(blob) < BLOCK_SIZE THEN Len(blob) ELSE BLOCK_SIZE)
        ct     == Slice(blob, BLOCK_SIZE + 1, Len(blob))
        padded == CBCDecrypt(key_enc, iv, ct)
        plain  == unpad(padded)
        text   == Utf8Decode(plain.val)
    IN  IF Len(iv) # BLOCK_SIZE THEN [ok |-> FALSE, val |-> <<>>]
        ELSE IF Len(ct) % BLOCK_SIZE # 0 THEN [ok |-> FALSE, val |-> <<>>]
        ELSE IF ~plain.ok THEN [ok |-> FALSE, val |-> <<>>]
        ELSE text

\* the tag of the i-th (key, message) pair a tag was computed for
Codeword(i) == [j \in 1..HMAC_SIZE |-> (37 * i + j) % 256]

\* the position of (key, msg) in the list of issued pairs, or 0
RECURSIVE IssuedIndex(_, _, _, _)
IssuedIndex(tbl, key, msg, i) ==
    IF i > Len(tbl) THEN 0
    ELSE IF tbl[i] = <<key, msg>> THEN i
    ELSE IssuedIndex(tbl, key, msg, i + 1)

\* the list of issued pairs after HMAC.new(key).update(msg).digest()
HMACIssue(tbl, key, msg) ==
    IF IssuedIndex(tbl, key, msg, 1) # 0 THEN tbl ELSE Append(tbl, <<key, msg>>)

\* HMAC.new(key, digestmod=SHA256).update(msg).digest()
HMACDigest(tbl, key, msg) == Codeword(IssuedIndex(HMACIssue(tbl, key, msg), key, msg, 1))

\* HMACVerify comparing only the first half of the tag
HMACVerifyHalf(tbl, key, msg, tag) ==
    LET i == IssuedIndex(tbl, key, msg, 1)
    IN  /\ i # 0
        /\ Len(tag) = HMAC_SIZE
        /\ \A j \in 1..(HMAC_SIZE \div 2) : tag[j] = Codeword(i)[j]

\* HMAC.new(key, digestmod=SHA256).update(msg).verify(tag) does not raise
HMACVerify(tbl, key, msg, tag) ==
    LET i == IssuedIndex(tbl, key, msg, 1)
    IN  i # 0 /\ tag = Codeword(i)

(***************************************************************************)
(* Paths and the plaintext encoding                                        *)
(***************************************************************************)

\* os.path.basename(path)
basename(path) == Slice(path, LastIndexOf(path, SLASH, Len(path)) + 1, Len(path))

\* whether some character of p[from..to-1] is not a dot
RECURSIVE HasNonDot(_, _, _)
HasNonDot(p, from, to) ==
    IF from >= to THEN FALSE
    ELSE IF p[from] # DOT THEN TRUE
    ELSE HasNonDot(p, from + 1, to)

\* os.path.splitext(name) of a name without directory: the extension starts
\* at the last dot, unless only dots precede it
splitext(name) ==
    LET d == LastIndexOf(name, DOT, Len(name))
    IN  IF d > 0 /\ HasNonDot(name, 1, d)
        THEN [root |-> Slice(name, 1, d - 1), ext |-> Slice(name, d, Len(name))]
        ELSE [root |-> name, ext |-> <<>>]

\* str.lstrip('.')
RECURSIVE lstripDots(_)
lstripDots(s) ==
    IF Len(s) > 0 /\ s[1] = DOT THEN lstripDots(Tail(s)) ELSE s

\* f"{filename_base}:{extension}:{base64_content}"
secret_value(filename_base, extension, base64_content) ==
    filename_base \o <<COLON>> \o extension \o <<COLON>> \o base64_content

\* str.split(':', 2)
split_parts(s) ==
    LET c1 == IndexFrom(s, COLON, 1)
        c2 == IF c1 = 0 THEN 0 ELSE IndexFrom(s, COLON, c1 + 1)
    IN  IF c1 = 0 THEN <<s>>
        ELSE IF c2 = 0 THEN <<Slice(s, 1, c1 - 1), Slice(s, c1 + 1, Len(s))>>
        ELSE <<Slice(s, 1, c1 - 1), Slice(s, c1 + 1, c2 - 1), Slice(s, c2 + 1, Len(s))>>

\* '.lb'
LbSuffix == <<DOT, 108, 98>>

\* '_decrypted'
DecryptedSuffix == <<95, 100, 101, 99, 114, 121, 112, 116, 101, 100>>

\* str.lower() on the ASCII letters
lower(s) == [i \in 1..Len(s) |-> IF s[i] >= 65 /\ s[i] <= 90 THEN s[i] + 32 ELSE s[i]]

\* the file name read_lockbox opens for the name the user entered
lockbox_filename(input) ==
    IF Len(input) >= 3 /\ Slice(lower(input), Len(input) - 2, Len(input)) = LbSuffix
    THEN input
    ELSE input \o LbSuffix

\* output_filename with the dot written before an empty extension too
output_filename_always_dot(filename_base, extension) ==
    filename_base \o DecryptedSuffix \o <<DOT>> \o extension

\* the name of the recovered file
output_filename(filename_base, extension) ==
    IF extension # <<>>
    THEN filename_base \o DecryptedSuffix \o <<DOT>> \o extension
    ELSE filename_base \o DecryptedSuffix

(***************************************************************************)
(* Inputs and environment                                                  *)
(***************************************************************************)

\* the number of menu operations (write or read) a behaviour runs
MaxOps == 2

\* "p1" and "wrong"
Passwords == {<<112, 49>>, <<119, 114, 111, 110, 103>>}

\* "01/01/2000 00:00:00"
ExpiryY2K == <<48, 49, 47, 48, 49, 47, 50, 48, 48, 48, 32,
               48, 48, 58, 48, 48, 58, 48, 48>>

\* what the user may type at the expiry prompt: the date above and
\* "2000-01-01", which the prompt refuses
ExpiryInputs == {ExpiryY2K, <<50, 48, 48, 48, 45, 48, 49, 45, 48, 49>>}

\* "hi"
Hi == <<104, 105>>

\* the readable files the user may name at the path prompt:
\* "d/é.txt" and "a:b", both holding "hi"
SourceFiles ==
    {[path |-> <<100, 47, 233, 46, 116, 120, 116>>, content |-> Hi],
     [path |-> <<97, 58, 98>>, content |-> Hi]}

\* the values get_random_bytes(16) may return; the first holds a 0x0A byte
IVs == {[i \in 1..BLOCK_SIZE |-> i], [i \in 1..BLOCK_SIZE |-> 255 - i]}

\* the UTC offsets get_localzone() may stand for, in seconds
TzOffsets == {0, 3600}

\* what ntp_client.request may give: an exception, or a response whose
\* transmit time (UTC) is 1999-12-31 23:00:00, 2000-01-01 00:00:00, or
\* 10000-01-01 00:00:00, which datetime cannot hold
NtpResults ==
    {[ok |-> FALSE, tx |-> <<0, 0>>],
     [ok |-> TRUE, tx |-> <<730119, 82800>>],
     [ok |-> TRUE, tx |-> <<730120, 0>>],
     [ok |-> TRUE, tx |-> <<3652060, 0>>]}

\* "f.lb", the name under which a file of another origin appears on disk
ForeignName == <<102>> \o LbSuffix

\* a blob as encrypt_secret builds it, for a plaintext of any shape
ForeignBlob(plaintext) ==
    encrypt_secret(plaintext, derive_keys(<<112, 49>>).key_enc,
                   [i \in 1..BLOCK_SIZE |-> 7])

\* Files of another origin.  Unsigned ones are raw bytes; signed ones are a
\* message followed by the tag its author, who knows "p1", computed for it
\* before the program starts.
ForeignFiles ==
    {\* 32 zero bytes: no longer than a tag
     [signed |-> FALSE, msg |-> Repeat(0, HMAC_SIZE)],
     \* 40 bytes 'A': longer than a tag, no newline, no valid tag
     [signed |-> FALSE, msg |-> Repeat(65, 40)],
     \* a tagged message without newline
     [signed |-> TRUE, msg |-> Repeat(65, 8)],
     \* a tagged message whose expiry line is "2000-01-01"
     [signed |-> TRUE,
      msg |-> <<50, 48, 48, 48, 45, 48, 49, 45, 48, 49, NEWLINE>>
              \o ForeignBlob(<<97, 58, 98, 58>>)],
     \* a tagged message whose envelope is 3 bytes long
     [signed |-> TRUE, msg |-> ExpiryY2K \o <<NEWLINE, 1, 2, 3>>],
     \* a tagged message whose plaintext "ab:c" has two parts
     [signed |-> TRUE,
      msg |-> ExpiryY2K \o <<NEWLINE>> \o ForeignBlob(<<97, 98, 58, 99>>)],
     \* a tagged message whose plaintext "a:b:Q" ends in broken base64
     [signed |-> TRUE,
      msg |-> ExpiryY2K \o <<NEWLINE>> \o ForeignBlob(<<97, 58, 98, 58, 81>>)],
     \* a tagged message whose plaintext "n::aGk=" has an empty extension
     [signed |-> TRUE,
      msg |-> ExpiryY2K \o <<NEWLINE>>
              \o ForeignBlob(<<110, 58, 58, 97, 71, 107, 61>>)],
     \* a tagged message with an empty envelope
     [signed |-> TRUE, msg |-> ExpiryY2K \o <<NEWLINE>>],
     \* a tagged message whose envelope is an IV and no ciphertext
     [signed |-> TRUE, msg |-> ExpiryY2K \o <<NEWLINE>> \o Repeat(7, BLOCK_SIZE)],
     \* a tagged message whose ciphertext is 5 bytes long
     [signed |-> TRUE,
      msg |-> ExpiryY2K \o <<NEWLINE>> \o Repeat(7, BLOCK_SIZE + 5)],
     \* a tagged message whose ciphertext block does not decrypt to padded text
     [signed |-> TRUE,
      msg |-> ExpiryY2K \o <<NEWLINE>> \o Repeat(7, 2 * BLOCK_SIZE)],
     \* a tagged message whose plaintext bytes FF 3A 3A are not UTF-8
     [signed |-> TRUE,
      msg |-> ExpiryY2K \o <<NEWLINE>> \o Repeat(7, BLOCK_SIZE)
              \o CBCEncrypt(derive_keys(<<112, 49>>).key_enc,
                            Repeat(7, BLOCK_SIZE), pad(<<255, 58, 58>>))]}

\* the MAC key of the author of the signed files
ForeignKey == derive_keys(<<112, 49>>).key_mac

\* the (key, message) pairs that author computed tags for, smallest message first
RECURSIVE IssueAll(_, _)
IssueAll(tbl, msgs) ==
    IF msgs = {} THEN tbl
    ELSE LET m == CHOOSE x \in msgs : \A y \in msgs : Len(x) <= Len(y)
         IN  IssueAll(HMACIssue(tbl, ForeignKey, m), msgs \ {m})

ForeignIssued == IssueAll(<<>>, {f.msg : f \in {g \in ForeignFiles : g.signed}})

\* what the user may type at the lockbox filename prompt
ReadInputs ==
    {<<>>, <<233>>, <<233>> \o LbSuffix, <<97, 58, 98>>, <<102>>,
     \* "zz": no such lockbox, the prompt repeats
     <<122, 122>>}

(***************************************************************************)
(* State                                                                   *)
(***************************************************************************)

VARIABLES
    pc,        \* where the program is: at the menu, or at a step of read_lockbox
    ops,       \* the menu operations started so far
    disk,      \* the files on disk: name -> bytes
    issued,    \* the (key, message) pairs a tag was computed for
    written,   \* per lockbox name, what the last write_lockbox saved there
    rd,        \* the locals of the running (or last) read_lockbox
    gates,     \* the gates the running (or last) read_lockbox evaluated, in order
    outcome,   \* how the last read_lockbox ended
    calls      \* the calls of encrypt_secret so far, in order

vars == <<pc, ops, disk, issued, written, rd, gates, outcome, calls>>

\* the disk with `content` saved under `name`
Put(d, name, content) ==
    [n \in (DOMAIN d) \cup {name} |-> IF n = name THEN content ELSE d[n]]

NoFiles == [n \in {} |-> <<>>]

\* the locals of read_lockbox before it runs
RdInit ==
    [name |-> <<>>, password |-> <<>>, content |-> <<>>,
     key_enc |-> <<>>, key_mac |-> <<>>, msg |-> <<>>, tag |-> <<>>,
     expiry_line |-> <<>>, encrypted_blob |-> <<>>,
     exp_dt |-> <<0, 0>>, tz |-> 0, fetch |-> "none", tx |-> <<0, 0>>,
     now |-> <<0, 0>>,
     decrypted_value |-> <<>>, filename_base |-> <<>>, extension |-> <<>>,
     file_content |-> <<>>, output_filename |-> <<>>, saved |-> FALSE]

Init ==
    /\ pc = "menu"
    /\ ops = 0
    /\ disk = NoFiles
    /\ issued = ForeignIssued
    /\ written = NoFiles
    /\ rd = RdInit
    /\ gates = <<>>
    /\ outcome = "none"
    /\ calls = <<>>

(***************************************************************************)
(* write_lockbox                                                           *)
(***************************************************************************)

\* write_msg without the newline between the expiry line and the blob
write_msg_no_newline(expiry_str, encrypted_blob) == expiry_str \o encrypted_blob

\* msg of write_lockbox: the expiry line, a newline, the encrypted blob
write_msg(expiry_str, encrypted_blob) == expiry_str \o <<NEWLINE>> \o encrypted_blob

\* what write_lockbox saves: the message, then its tag
write_content(msg, tag) == msg \o tag

\* One run of write_lockbox.  The prompts repeat until the expiry parses and
\* the file is readable, so the action takes only such inputs; io_ok says
\* whether saving the lockbox succeeds.
write_lockbox(expiry_str, src, password, iv, io_ok) ==
    LET base64_content == B64Encode(src.content)
        parts          == splitext(basename(src.path))
        filename_base  == parts.root
        extension      == lstripDots(parts.ext)
        secret         == secret_value(filename_base, extension, base64_content)
        filename       == filename_base \o LbSuffix
        keys           == derive_keys(password)
        encrypted_blob == encrypt_secret(secret, keys.key_enc, iv)
        msg            == write_msg(expiry_str, encrypted_blob)
        tag            == HMACDigest(issued, keys.key_mac, msg)
    IN  /\ pc = "menu"
        /\ ops < MaxOps
        /\ ParseExpiry(expiry_str).ok
        \* expiry_str.encode('ascii') raises on other characters: nothing is saved
        /\ IsAscii(expiry_str)
        /\ ops' = ops + 1
        \* a tag that is computed and then lost with the failed save is one
        \* nobody can present: it is not listed
        /\ IF io_ok
           THEN /\ issued' = HMACIssue(issued, keys.key_mac, msg)
                /\ disk' = Put(disk, filename, write_content(msg, tag))
                /\ written' = Put(written, filename,
                       [password |-> password, expiry_str |-> expiry_str,
                        filename_base |-> filename_base, extension |-> extension,
                        file_content |-> src.content, iv |-> iv,
                        content |-> write_content(msg, tag)])
           ELSE UNCHANGED <<issued, disk, written>>
        /\ rd' = RdInit
        /\ gates' = <<>>
        /\ outcome' = "none"
        /\ calls' = Append(calls, [key_enc |-> keys.key_enc, plaintext |-> secret,
                                   iv |-> iv, blob |-> encrypted_blob])
        /\ UNCHANGED pc

Write ==
    \E expiry_str \in ExpiryInputs, src \in SourceFiles, password \in Passwords,
       iv \in IVs, io_ok \in BOOLEAN :
        write_lockbox(expiry_str, src, password, iv, io_ok)

(***************************************************************************)
(* The environment: the disk is not the program's alone                    *)
(***************************************************************************)

\* b with its lowest bit flipped
FlipBit(b) == IF b % 2 = 0 THEN b + 1 ELSE b - 1

\* the bytes with one position changed
Altered(bytes) ==
    {[bytes EXCEPT ![pos] = FlipBit(@)] : pos \in 1..Len(bytes)}

\* the bytes of a file of another origin
ForeignContent(f) ==
    IF f.signed
    THEN f.msg \o HMACDigest(ForeignIssued, ForeignKey, f.msg)
    ELSE f.msg

\* What open(filename, 'rb').read() may return: for the foreign name, any
\* file of another origin; for a lockbox write_lockbox saved, its bytes as
\* saved or with one position changed by somebody else since.
file_read(d, filename) ==
    IF filename = ForeignName THEN {ForeignContent(f) : f \in ForeignFiles}
    ELSE {d[filename]} \cup Altered(d[filename])

\* the names open() finds
readable(d) == (DOMAIN d) \cup {ForeignName}

(***************************************************************************)
(* read_lockbox, one action per gate                                       *)
(***************************************************************************)

\* read_lockbox returns: back to the menu with the given outcome
Return(result) ==
    /\ pc' = "menu"
    /\ outcome' = result

\* The filename and password prompts: the filename prompt repeats until the
\* file can be read; then the keys are derived.
ReadStart ==
    /\ pc = "menu"
    /\ ops < MaxOps
    /\ \E input \in ReadInputs, password \in Passwords :
          LET filename == lockbox_filename(input)
              keys     == derive_keys(password)
          IN  /\ input # <<>>
              /\ filename \in readable(disk)
              /\ \E content \in file_read(disk, filename) :
                    rd' = [RdInit EXCEPT !.name = filename, !.password = password,
                                         !.content = content,
                                         !.key_enc = keys.key_enc,
                                         !.key_mac = keys.key_mac]
    /\ ops' = ops + 1
    /\ pc' = "size"
    /\ gates' = <<>>
    /\ outcome' = "none"
    /\ UNCHANGED <<disk, issued, written, calls>>

\* content[:-HMAC_SIZE], content[-HMAC_SIZE:]
split_tag(content) ==
    [msg |-> Slice(content, 1, Len(content) - HMAC_SIZE),
     tag |-> Slice(content, Len(content) - HMAC_SIZE + 1, Len(content))]

\* too_small with < in place of <=
too_small_strict(content) == Len(content) < HMAC_SIZE

\* whether the content is too small to hold a tag
too_small(content) == Len(content) <= HMAC_SIZE

\* The size check, and the split into message and tag.
ReadSizeCheck ==
    /\ pc = "size"
    /\ gates' = Append(gates, "size")
    /\ IF too_small(rd.content)
       THEN Return("FormatError") /\ rd' = rd
       ELSE /\ rd' = [rd EXCEPT !.msg = split_tag(rd.content).msg,
                                !.tag = split_tag(rd.content).tag]
            /\ pc' = "mac"
            /\ outcome' = outcome
    /\ UNCHANGED <<ops, disk, issued, written, calls>>

\* mac_verifies with the ValueError of h.verify swallowed
mac_verifies_swallowed(tbl, r) == TRUE

\* whether h.verify(tag) passes for the locals of the read
mac_verifies(tbl, r) == HMACVerify(tbl, r.key_mac, r.msg, r.tag)

\* The integrity check.
ReadVerifyMac ==
    /\ pc = "mac"
    /\ gates' = Append(gates, "mac")
    /\ IF mac_verifies(issued, rd)
       THEN pc' = "split" /\ outcome' = outcome
       ELSE Return("IntegrityError")
    /\ UNCHANGED <<ops, disk, issued, written, rd, calls>>

\* split_line splitting at the last newline instead of the first
split_line_at_last(msg) ==
    LET nl == LastIndexOf(msg, NEWLINE, Len(msg))
    IN  IF nl = 0 THEN <<msg>>
        ELSE <<Slice(msg, 1, nl - 1), Slice(msg, nl + 1, Len(msg))>>

\* msg.split(b'\n', 1): one part when msg holds no newline
split_line(msg) ==
    LET nl == IndexFrom(msg, NEWLINE, 1)
    IN  IF nl = 0 THEN <<msg>>
        ELSE <<Slice(msg, 1, nl - 1), Slice(msg, nl + 1, Len(msg))>>

\* The split into expiry line and encrypted blob.
ReadSplitLine ==
    /\ pc = "split"
    /\ gates' = Append(gates, "split")
    /\ IF Len(split_line(rd.msg)) # 2
       THEN Return("FormatError") /\ rd' = rd
       ELSE /\ rd' = [rd EXCEPT !.expiry_line = split_line(rd.msg)[1],
                                !.encrypted_blob = split_line(rd.msg)[2]]
            /\ pc' = "expiry"
            /\ outcome' = outcome
    /\ UNCHANGED <<ops, disk, issued, written, calls>>

\* parse_expiry_line with the ValueError of strptime swallowed
parse_expiry_line_lenient(expiry_line) ==
    [ok |-> TRUE, dt |-> ParseExpiry(expiry_line).dt]

\* datetime.strptime(expiry_line.decode('ascii'), ...)
parse_expiry_line(expiry_line) ==
    IF IsAscii(expiry_line) THEN ParseExpiry(expiry_line) ELSE NoDate

\* The expiry parse; the local timezone is attached to the result.
ReadParseExpiry ==
    /\ pc = "expiry"
    /\ gates' = Append(gates, "expiry")
    /\ IF ~parse_expiry_line(rd.expiry_line).ok
       THEN Return("FormatError") /\ rd' = rd
       ELSE /\ \E tz \in TzOffsets :
                  rd' = [rd EXCEPT !.exp_dt = parse_expiry_line(rd.expiry_line).dt,
                                   !.tz = tz]
            /\ pc' = "fetch"
            /\ outcome' = outcome
    /\ UNCHANGED <<ops, disk, issued, written, calls>>

\* datetime.fromtimestamp(resp.tx_time).astimezone(local_tz): the wall clock
\* of the local zone at the transmit time
local_now(tx, tz) == DtShift(tx, tz)

\* the local clock readings a fallback would use: 1999-06-01 and 2001-06-01,
\* both at 00:00:00
LocalClocks == {<<729906, 0>>, <<730637, 0>>}

\* ReadFetchTime falling back to the local clock when the fetch fails
ReadFetchTimeFallback ==
    /\ pc = "fetch"
    /\ gates' = Append(gates, "fetch")
    /\ \E resp \in NtpResults, clock \in LocalClocks :
          IF ~resp.ok
          THEN rd' = [rd EXCEPT !.fetch = "failed", !.now = clock]
          ELSE rd' = [rd EXCEPT !.fetch = "ok", !.tx = resp.tx,
                                !.now = DtShift(resp.tx, rd.tz)]
    /\ pc' = "compare"
    /\ outcome' = outcome
    /\ UNCHANGED <<ops, disk, issued, written, calls>>

\* date.max.toordinal(): datetime.fromtimestamp raises beyond it
MaxOrdinal == 3652059

\* whether the request and the conversion of its transmit time both succeed
fetch_ok(resp) == resp.ok /\ resp.tx[1] >= 1 /\ resp.tx[1] <= MaxOrdinal

\* ReadFetchTime asking the time source once more after a failure
ReadFetchTimeRetry ==
    /\ pc = "fetch"
    /\ gates' = Append(gates, "fetch")
    /\ \E resp \in NtpResults :
          IF fetch_ok(resp)
          THEN /\ rd' = [rd EXCEPT !.fetch = "ok", !.tx = resp.tx,
                                   !.now = local_now(resp.tx, rd.tz)]
               /\ pc' = "compare"
               /\ outcome' = outcome
          ELSE IF rd.fetch = "none"
          THEN /\ rd' = [rd EXCEPT !.fetch = "failed"]
               /\ pc' = "fetch"
               /\ outcome' = outcome
          ELSE /\ Return("TimeUnavailable")
               /\ rd' = [rd EXCEPT !.fetch = "failed"]
    /\ UNCHANGED <<ops, disk, issued, written, calls>>

\* ReadFetchTime taking the time of the comparison from the local clock
ReadFetchTimeLocalClock ==
    /\ pc = "fetch"
    /\ gates' = Append(gates, "fetch")
    /\ \E resp \in NtpResults, clock \in LocalClocks :
          IF ~fetch_ok(resp)
          THEN /\ Return("TimeUnavailable")
               /\ rd' = [rd EXCEPT !.fetch = "failed"]
          ELSE /\ rd' = [rd EXCEPT !.fetch = "ok", !.tx = resp.tx, !.now = clock]
               /\ pc' = "compare"
               /\ outcome' = outcome
    /\ UNCHANGED <<ops, disk, issued, written, calls>>

\* The trusted-time fetch: any exception of the request or of the conversion
\* ends the read.  rd.fetch and rd.tx keep what the time source answered.
ReadFetchTime ==
    /\ pc = "fetch"
    /\ gates' = Append(gates, "fetch")
    /\ \E resp \in NtpResults :
          IF ~fetch_ok(resp)
          THEN /\ Return("TimeUnavailable")
               /\ rd' = [rd EXCEPT !.fetch = "failed"]
          ELSE /\ rd' = [rd EXCEPT !.fetch = "ok", !.tx = resp.tx,
                                   !.now = local_now(resp.tx, rd.tz)]
               /\ pc' = "compare"
               /\ outcome' = outcome
    /\ UNCHANGED <<ops, disk, issued, written, calls>>

\* not_yet_expired with the operands of the comparison swapped
not_yet_expired_swapped(now, exp_dt) == DtLess(exp_dt, now)

\* not_yet_expired with <= in place of <
not_yet_expired_inclusive(now, exp_dt) == ~DtLess(exp_dt, now)

\* now < exp_dt: both carry the same tzinfo, so the wall clocks are compared
not_yet_expired(now, exp_dt) == DtLess(now, exp_dt)

\* The release decision.
ReadCompare ==
    /\ pc = "compare"
    /\ gates' = Append(gates, "compare")
    /\ IF not_yet_expired(rd.now, rd.exp_dt)
       THEN Return("NotYetExpired")
       ELSE pc' = "decrypt" /\ outcome' = outcome
    /\ UNCHANGED <<ops, disk, issued, written, rd, calls>>

\* The decryption.
ReadDecrypt ==
    /\ pc = "decrypt"
    /\ gates' = Append(gates, "decrypt")
    /\ IF ~decrypt_secret(rd.encrypted_blob, rd.key_enc).ok
       THEN Return("DecryptionError") /\ rd' = rd
       ELSE /\ rd' = [rd EXCEPT !.decrypted_value =
                                   decrypt_secret(rd.encrypted_blob, rd.key_enc).val]
            /\ pc' = "parts"
            /\ outcome' = outcome
    /\ UNCHANGED <<ops, disk, issued, written, calls>>

\* whether the split gave the three parts the code asks for
three_parts(decrypted_value) == Len(split_parts(decrypted_value)) = 3

\* The parse of the decrypted value and the base64 decode of its third part.
ReadParseParts ==
    /\ pc = "parts"
    /\ IF ~three_parts(rd.decrypted_value)
       THEN /\ gates' = Append(gates, "parts")
            /\ Return("FormatError") /\ rd' = rd
       ELSE LET parts == split_parts(rd.decrypted_value)
                data  == B64Decode(parts[3])
            IN  /\ gates' = gates \o <<"parts", "base64">>
                /\ IF ~data.ok
                   THEN Return("FormatError") /\ rd' = rd
                   ELSE /\ rd' = [rd EXCEPT !.filename_base = parts[1],
                                            !.extension = parts[2],
                                            !.file_content = data.val]
                        /\ pc' = "output"
                        /\ outcome' = outcome
    /\ UNCHANGED <<ops, disk, issued, written, calls>>

\* The recovered file is saved; io_ok says whether open/write succeeds.
ReadWriteOutput ==
    /\ pc = "output"
    /\ gates' = Append(gates, "output")
    /\ \E io_ok \in BOOLEAN :
          LET name == output_filename(rd.filename_base, rd.extension)
          IN  /\ rd' = [rd EXCEPT !.output_filename = name, !.saved = io_ok]
              /\ disk' = IF io_ok THEN Put(disk, name, rd.file_content) ELSE disk
    /\ Return("Released")
    /\ UNCHANGED <<ops, issued, written, calls>>

Next ==
    \/ Write
    \/ ReadStart
    \/ ReadSizeCheck
    \/ ReadVerifyMac
    \/ ReadSplitLine
    \/ ReadParseExpiry
    \/ ReadFetchTime
    \/ ReadCompare
    \/ ReadDecrypt
    \/ ReadParseParts
    \/ ReadWriteOutput

Spec == Init /\ [][Next]_vars

(***************************************************************************)
(* Properties                                                              *)
(***************************************************************************)

\* whether the running (or last) read evaluated gate g
Has(g) == \E i \in 1..Len(gates) : gates[i] = g

\* the position of gate g among the gates evaluated, or 0
GateIndex(g) == IndexFrom(gates, g, 1)

\* a read_lockbox has run and returned
ReadEnded == pc = "menu" /\ rd.name # <<>>

\* the message and tag parts of the bytes the read got from the file
RdMsg == Slice(rd.content, 1, Len(rd.content) - HMAC_SIZE)
RdTag == Slice(rd.content, Len(rd.content) - HMAC_SIZE + 1, Len(rd.content))

\* the MAC key that belongs to the password entered at the read prompt
EnteredMacKey == SHA256(Utf8Encode(rd.password) \o MacSuffix)

\* the tag of the file read is the tag of its message under that key
TagValid ==
    /\ Len(rd.content) > HMAC_SIZE
    /\ HMACVerify(issued, EnteredMacKey, RdMsg, RdTag)

\* no recovered file was saved, or named, by the running (or last) read
NoOutput == ~Has("output") /\ ~rd.saved /\ rd.output_filename = <<>>

\* C1: decryption is attempted only after the tag has verified under the key
\* derived from the entered password; when the tag does not match, the read
\* ends with the integrity error, and it neither decrypts, nor fetches the
\* time, nor writes an output file.
C1_MacBeforeDecrypt ==
    /\ Has("decrypt") =>
          /\ TagValid
          /\ GateIndex("mac") # 0
          /\ GateIndex("mac") < GateIndex("decrypt")
    /\ (Has("mac") /\ ~TagValid) =>
          /\ pc = "menu"
          /\ outcome = "IntegrityError"
          /\ ~Has("decrypt")
          /\ ~Has("fetch") /\ rd.fetch = "none"
          /\ NoOutput

\* a read whose tag verified has reached the decryption
C1_Witness == Has("decrypt") /\ TagValid /\ rd.name \in DOMAIN written

\* the expiry of the file read, as the code takes it: the wall clock of the
\* reader's zone; ExpiryUtc is the same instant in UTC
ExpiryLocal == ParseExpiry(rd.expiry_line).dt
ExpiryUtc == DtShift(ExpiryLocal, 0 - rd.tz)

\* the trusted time (UTC) is earlier than the expiry
TrustedEarlier == rd.fetch = "ok" /\ DtLess(rd.tx, ExpiryUtc)

\* C2: when the MAC verified, the expiry parsed and the fetch succeeded with a
\* trusted time earlier than the expiry, the read ends in NotYetExpired,
\* decrypt_secret is not invoked and no output file is written.
C2_NotYetExpiredNoDecrypt ==
    (Has("compare") /\ TrustedEarlier) =>
        /\ pc = "menu"
        /\ outcome = "NotYetExpired"
        /\ ~Has("decrypt") /\ rd.decrypted_value = <<>>
        /\ NoOutput

\* a lockbox the program wrote was read before its expiry
C2_Witness ==
    /\ outcome = "NotYetExpired"
    /\ rd.name \in DOMAIN written
    /\ TrustedEarlier

\* C3: when the trusted-time fetch fails, the read ends with the
\* time-unavailable outcome: no time takes the place of the trusted one, and
\* nothing is decrypted or written.
C3_FetchFailureAborts ==
    rd.fetch = "failed" =>
        /\ pc = "menu"
        /\ outcome = "TimeUnavailable"
        /\ rd.now = RdInit.now
        /\ ~Has("compare") /\ ~Has("decrypt") /\ rd.decrypted_value = <<>>
        /\ NoOutput

\* the fetch failed in the read of a lockbox the program wrote
C3_Witness ==
    /\ rd.fetch = "failed"
    /\ outcome = "TimeUnavailable"
    /\ rd.name \in DOMAIN written

\* the read got the bytes of a lockbox exactly as write_lockbox saved them
IntactRead == rd.name \in DOMAIN written /\ rd.content = written[rd.name].content

\* the password entered at the read prompt is the one the lockbox was written with
SamePassword == rd.password = written[rd.name].password

\* the trusted time (UTC) is not earlier than the expiry the lockbox was
\* written with, taken in the reader's zone
WrittenExpiryPassed ==
    /\ rd.fetch = "ok"
    /\ ~DtLess(rd.tx, DtShift(ParseExpiry(written[rd.name].expiry_str).dt, 0 - rd.tz))

\* C4: round trip.  Reading, with the same password and a trusted time not
\* earlier than the expiry, the lockbox that write_lockbox saved ends in
\* Released with the content, the name stem and the extension of the file
\* that was locked.
C4_RoundTrip ==
    (ReadEnded /\ IntactRead /\ SamePassword /\ WrittenExpiryPassed) =>
        /\ outcome = "Released"
        /\ rd.file_content = written[rd.name].file_content
        /\ rd.filename_base = written[rd.name].filename_base
        /\ rd.extension = written[rd.name].extension

\* C5: reading a lockbox as write_lockbox saved it, with a password other
\* than the one it was written with, ends in the integrity error at the MAC
\* verification: never the decryption error, NotYetExpired or Released, and
\* no output file.
C5_WrongPasswordIntegrityError ==
    (IntactRead /\ ~SamePassword) =>
        /\ pc \in {"size", "mac", "menu"}
        /\ outcome = (IF pc = "menu" THEN "IntegrityError" ELSE "none")
        /\ ~Has("split") /\ ~Has("decrypt") /\ rd.decrypted_value = <<>>
        /\ NoOutput

\* a lockbox the program wrote was read with another password
C5_Witness ==
    /\ IntactRead /\ ~SamePassword
    /\ ReadEnded /\ outcome = "IntegrityError"

\* the read got the bytes of a lockbox write_lockbox saved, with one position
\* (of the expiry string, the IV, the ciphertext or the tag) changed
TamperedRead ==
    /\ rd.name \in DOMAIN written
    /\ LET saved == written[rd.name].content
           e     == Len(written[rd.name].expiry_str)
       IN  /\ Len(rd.content) = Len(saved)
           /\ \E pos \in (1..Len(saved)) \ {e + 1} :
                 /\ rd.content[pos] # saved[pos]
                 /\ \A q \in (1..Len(saved)) \ {pos} : rd.content[q] = saved[q]

\* C6: tamper detection.  A read with the correct password of a lockbox with
\* one position changed ends in the integrity error, before the expiry is
\* parsed, the time is fetched or anything is decrypted.
C6_TamperDetected ==
    (TamperedRead /\ SamePassword) =>
        /\ pc \in {"size", "mac", "menu"}
        /\ outcome = (IF pc = "menu" THEN "IntegrityError" ELSE "none")
        /\ ~Has("expiry") /\ rd.exp_dt = RdInit.exp_dt
        /\ ~Has("fetch") /\ rd.fetch = "none"
        /\ ~Has("decrypt") /\ rd.decrypted_value = <<>>
        /\ NoOutput

\* a tampered lockbox was read with the correct password, the changed
\* position being in the tag
C6_Witness ==
    /\ TamperedRead /\ SamePassword
    /\ ReadEnded /\ outcome = "IntegrityError"
    /\ RdMsg = Slice(written[rd.name].content, 1,
                     Len(written[rd.name].content) - HMAC_SIZE)

\* the gates of read_lockbox, in the order of the code
GateOrder ==
    <<"size", "mac", "split", "expiry", "fetch", "compare", "decrypt",
      "parts", "base64", "output">>

\* the outcome in which a failure at gate g ends the read
GateError(g) ==
    CASE g \in {"size", "split", "expiry", "parts", "base64"} -> "FormatError"
      [] g = "mac" -> "IntegrityError"
      [] g = "fetch" -> "TimeUnavailable"
      [] g = "compare" -> "NotYetExpired"
      [] g = "decrypt" -> "DecryptionError"
      [] OTHER -> "none"

\* the message holds no newline
NoNewline == \A i \in 1..Len(RdMsg) : RdMsg[i] # NEWLINE

\* the expiry line and the encrypted blob of the file read
RdLine == Slice(RdMsg, 1, IndexFrom(RdMsg, NEWLINE, 1) - 1)
RdBlob == Slice(RdMsg, IndexFrom(RdMsg, NEWLINE, 1) + 1, Len(RdMsg))

\* the plaintext of the blob under the key of the entered password
RdPlain == decrypt_secret(RdBlob, SHA256(Utf8Encode(rd.password) \o EncSuffix))

\* the text after the second ':' of the plaintext
RdThird ==
    LET c1 == IndexFrom(RdPlain.val, COLON, 1)
        c2 == IndexFrom(RdPlain.val, COLON, c1 + 1)
    IN  Slice(RdPlain.val, c2 + 1, Len(RdPlain.val))

\* gate g does not pass for the file read, the password entered and the
\* answer of the time source
GateFails(g) ==
    CASE g = "size" -> Len(rd.content) <= HMAC_SIZE
      [] g = "mac" -> ~TagValid
      [] g = "split" -> NoNewline
      [] g = "expiry" -> ~(IsAscii(RdLine) /\ ParseExpiry(RdLine).ok)
      [] g = "fetch" -> rd.fetch # "ok"
      [] g = "compare" -> DtLess(rd.tx, DtShift(ParseExpiry(RdLine).dt, 0 - rd.tz))
      [] g = "decrypt" -> ~RdPlain.ok
      [] g = "parts" -> CountOf(RdPlain.val, COLON, 1) < 2
      [] g = "base64" -> ~B64Decode(RdThird).ok
      [] OTHER -> FALSE

\* the gates were evaluated in the order of the code, none skipped
InGateOrder ==
    /\ Len(gates) <= Len(GateOrder)
    /\ \A k \in 1..Len(gates) : gates[k] = GateOrder[k]

\* C7 in a state: an output file is written or named only in Released, with
\* every gate evaluated and passed; a gate that fails is the last one
\* evaluated, the read has ended with that gate's error, and no output file
\* was written.
C7_GatesInState ==
    /\ InGateOrder
    /\ (Has("output") \/ rd.saved \/ rd.output_filename # <<>>
            \/ outcome = "Released") =>
          /\ pc = "menu" /\ outcome = "Released"
          /\ gates = GateOrder
          /\ \A k \in 1..Len(gates) : ~GateFails(gates[k])
    /\ \A k \in 1..Len(gates) :
          GateFails(gates[k]) =>
              /\ k = Len(gates)
              /\ pc = "menu" /\ outcome = GateError(gates[k])
              /\ NoOutput

\* C7 in a step: read_lockbox changes the disk only in its last step, which
\* ends in Released
C7_DiskStep ==
    (pc # "menu" /\ disk' # disk) => (pc = "output" /\ outcome' = "Released")

\* C7: read_lockbox writes an output file only in the Released outcome, when
\* every gate passed; a failure at a gate ends the read at once, with no
\* output file and no later gate evaluated.
C7_OutputOnlyWhenReleased == [](C7_GatesInState) /\ [][C7_DiskStep]_vars

\* a read ended at the base64 gate, every earlier gate having passed
C7_Witness ==
    /\ ReadEnded /\ outcome = "FormatError"
    /\ Len(gates) = 9 /\ GateFails("base64")
    /\ NoOutput

\* the file c has the layout of a lockbox written with the expiry string,
\* the IV and the password of w, and its tag is the MAC of all that precedes
\* the tag under the MAC key of that password
WellFormed(c, w) ==
    LET e  == Len(w.expiry_str)
        ct == Slice(c, e + 1 + BLOCK_SIZE + 1, Len(c) - HMAC_SIZE)
    IN  /\ Len(c) >= e + 1 + BLOCK_SIZE + BLOCK_SIZE + HMAC_SIZE
        /\ Slice(c, 1, e) = w.expiry_str
        /\ c[e + 1] = NEWLINE
        /\ Slice(c, e + 2, e + 1 + BLOCK_SIZE) = w.iv
        /\ Len(ct) > 0 /\ Len(ct) % BLOCK_SIZE = 0
        /\ Len(c) = e + 1 + BLOCK_SIZE + Len(ct) + HMAC_SIZE
        /\ HMACVerify(issued, SHA256(Utf8Encode(w.password) \o MacSuffix),
                      Slice(c, 1, Len(c) - HMAC_SIZE),
                      Slice(c, Len(c) - HMAC_SIZE + 1, Len(c)))

\* C8: every lockbox write_lockbox saved is the expiry string, one newline
\* byte, a 16-byte IV, a non-empty ciphertext of a multiple of 16 bytes and a
\* 32-byte tag, and the tag is the MAC, under the MAC key of the password
\* entered for that write, of everything before it.
C8_ContainerLayout ==
    \A n \in DOMAIN written : n \in DOMAIN disk /\ WellFormed(disk[n], written[n])

\* two lockboxes were saved, one of them with an IV that holds a newline byte
C8_Witness ==
    /\ Cardinality(DOMAIN written) = 2
    /\ \E n \in DOMAIN written :
          /\ disk[n] = written[n].content
          /\ \E i \in 1..BLOCK_SIZE : written[n].iv[i] = NEWLINE

\* the bytes read cannot be split into expiry line, blob and tag
Undeserializable == Len(rd.content) <= HMAC_SIZE \/ NoNewline

\* C9 as stated: bytes of at most 32 in all, or with no newline before the
\* last 32, end the read with the format error before the MAC verification
\* is attempted.
C9_FormatErrorBeforeMac ==
    (ReadEnded /\ Undeserializable) =>
        (outcome = "FormatError" /\ ~Has("mac"))

\* C9, amended: bytes of at most 32 in all end the read with the format error
\* at the size check, before the MAC verification, for every password;
\* longer bytes with no newline before the last 32 go through the MAC
\* verification first, and end with the integrity error when the tag does not
\* verify under the entered password, and with the format error at the split,
\* before the expiry parse, the fetch and the decryption, when it does.
C9_SizeThenMacThenSplit ==
    /\ (Has("size") /\ Len(rd.content) <= HMAC_SIZE) =>
          /\ pc = "menu" /\ outcome = "FormatError"
          /\ gates = <<"size">>
          /\ NoOutput
    /\ (ReadEnded /\ Len(rd.content) > HMAC_SIZE /\ NoNewline) =>
          /\ gates = (IF TagValid THEN <<"size", "mac", "split">>
                      ELSE <<"size", "mac">>)
          /\ outcome = (IF TagValid THEN "FormatError" ELSE "IntegrityError")
          /\ rd.fetch = "none" /\ rd.decrypted_value = <<>>
          /\ NoOutput
    /\ (~ReadEnded /\ Undeserializable) => pc \in {"menu", "size", "mac", "split"}

\* a file with a valid tag and no newline was read: the format error came
\* after the MAC verification
C9_Witness ==
    /\ ReadEnded /\ NoNewline /\ TagValid
    /\ outcome = "FormatError"
    /\ gates = <<"size", "mac", "split">>

\* C10: a decrypted text that does not hold exactly two ':' separators ends
\* the read with the format error, and no output file is written.
C10_WrongPartCountRejected ==
    (ReadEnded /\ Has("parts") /\ CountOf(rd.decrypted_value, COLON, 1) # 2) =>
        /\ outcome = "FormatError"
        /\ NoOutput

\* the read went on from the comparison to the decryption
Proceeded == pc = "decrypt" \/ Has("decrypt")

\* C11: once the MAC verified, the expiry parsed and the fetch succeeded, the
\* read goes on to the decryption exactly when the trusted time is not
\* earlier than the expiry, and ends in NotYetExpired exactly when it is; a
\* trusted time equal to the expiry goes on to the decryption.
C11_ReleaseBoundary ==
    Has("compare") =>
        /\ rd.fetch = "ok" /\ TagValid /\ ParseExpiry(rd.expiry_line).ok
        /\ Proceeded <=> ~DtLess(rd.tx, ExpiryUtc)
        /\ (outcome = "NotYetExpired") <=> DtLess(rd.tx, ExpiryUtc)
        /\ rd.tx = ExpiryUtc => (Proceeded /\ outcome # "NotYetExpired")

\* a read with the trusted time equal to the expiry has decrypted
C11_Witness ==
    /\ Has("decrypt") /\ rd.fetch = "ok"
    /\ rd.tx = ExpiryUtc
    /\ rd.decrypted_value # <<>>

\* the state of the read protocol the program is in: 1 Start, 2 MacVerified,
\* 3 ExpiryParsed, 4 TimeFetched, 5 Decided, 6 ended (Released or Rejected)
\* or not reading
ProtocolState(p) ==
    CASE p \in {"size", "mac"} -> 1
      [] p \in {"split", "expiry"} -> 2
      [] p = "fetch" -> 3
      [] p = "compare" -> 4
      [] p \in {"decrypt", "parts", "output"} -> 5
      [] OTHER -> 6

\* C12 in a state: the gates are evaluated in the order of the code; the
\* time is fetched at most once in a read, and only after the tag verified
\* and the expiry line parsed; a failed fetch has ended the read.
C12_FetchOnceInState ==
    /\ InGateOrder
    /\ CountOf(gates, "fetch", 1) <= 1
    /\ (rd.fetch # "none") <=> Has("fetch")
    /\ Has("fetch") =>
          /\ TagValid
          /\ IsAscii(RdLine) /\ ParseExpiry(RdLine).ok
          /\ GateIndex("mac") # 0 /\ GateIndex("mac") < GateIndex("fetch")
          /\ GateIndex("expiry") # 0 /\ GateIndex("expiry") < GateIndex("fetch")
    /\ (Has("mac") /\ ~TagValid) => ~Has("fetch")
    /\ (Has("expiry") /\ GateFails("expiry")) => ~Has("fetch")
    /\ rd.fetch = "failed" => (pc = "menu" /\ gates[Len(gates)] = "fetch")

\* C12 in a step: a read starts in Start, and each of its steps stays in the
\* protocol state, moves to the next one, or ends the read; the step that
\* fetches the time is the one that leaves ExpiryParsed.
C12_ForwardStep ==
    /\ (pc = "menu" /\ pc' # "menu") =>
          (ProtocolState(pc') = 1 /\ gates' = <<>> /\ rd'.fetch = "none")
    /\ pc # "menu" =>
          /\ ProtocolState(pc') \in {ProtocolState(pc), ProtocolState(pc) + 1, 6}
          /\ pc' # pc
    /\ (rd'.fetch # rd.fetch /\ rd'.fetch # "none") =>
          (pc = "fetch" /\ rd.fetch = "none" /\ pc' \in {"compare", "menu"})

\* C12: every read follows Start, MacVerified, ExpiryParsed, TimeFetched,
\* Decided, (Released | Rejected) without skipping or revisiting a state; the
\* time is fetched at most once per read and only after the MAC verified and
\* the expiry parsed, and a failed fetch is not retried.
C12_GateOrderFetchOnce == [](C12_FetchOnceInState) /\ [][C12_ForwardStep]_vars

\* the one fetch of a read failed, and the read ended there
C12_Witness ==
    /\ ReadEnded /\ rd.fetch = "failed"
    /\ gates = <<"size", "mac", "split", "expiry", "fetch">>

\* the first and the second part of the plaintext of the file read
RdStem == Slice(RdPlain.val, 1, IndexFrom(RdPlain.val, COLON, 1) - 1)
RdExtension ==
    LET c1 == IndexFrom(RdPlain.val, COLON, 1)
    IN  Slice(RdPlain.val, c1 + 1, IndexFrom(RdPlain.val, COLON, c1 + 1) - 1)

\* the plaintext of the lockbox saved with the record w
WrittenPlain(w) ==
    LET e == Len(w.expiry_str)
    IN  decrypt_secret(Slice(w.content, e + 2, Len(w.content) - HMAC_SIZE),
                       SHA256(Utf8Encode(w.password) \o EncSuffix))

\* C13: a lockbox is saved under the name stem of its payload followed by
\* '.lb'; a read that ends in Released names the recovered file
\* '<stem>_decrypted.<extension>' when the extension is not empty and
\* '<stem>_decrypted' when it is, stem and extension being the first and the
\* second part of the decrypted payload, and saves the decoded content there.
C13_FileNames ==
    /\ \A n \in DOMAIN written :
          /\ n \in DOMAIN disk
          /\ n = written[n].filename_base \o <<DOT, 108, 98>>
          /\ WrittenPlain(written[n]).ok
          /\ WrittenPlain(written[n]).val =
                written[n].filename_base \o <<COLON>> \o written[n].extension
                    \o <<COLON>> \o B64Encode(written[n].file_content)
    /\ outcome = "Released" =>
          /\ rd.output_filename =
                (IF RdExtension # <<>>
                 THEN RdStem \o DecryptedSuffix \o <<DOT>> \o RdExtension
                 ELSE RdStem \o DecryptedSuffix)
          /\ rd.saved =>
                /\ rd.output_filename \in DOMAIN disk
                /\ disk[rd.output_filename] = B64Decode(RdThird).val

\* a payload with an empty extension was released and saved
C13_Witness ==
    /\ outcome = "Released" /\ rd.saved
    /\ RdExtension = <<>>
    /\ rd.output_filename = RdStem \o DecryptedSuffix

\* calls i and j of encrypt_secret encrypt the same plaintext under the same key
SameKeyAndPlaintext(i, j) ==
    /\ calls[i].key_enc = calls[j].key_enc
    /\ calls[i].plaintext = calls[j].plaintext

\* C14 as stated: no two calls of encrypt_secret use the same IV, and two
\* calls with the same plaintext and the same key give different envelopes.
C14_NoIvReuse ==
    \A i, j \in 1..Len(calls) :
        i # j =>
            /\ calls[i].iv # calls[j].iv
            /\ SameKeyAndPlaintext(i, j) => calls[i].blob # calls[j].blob

\* C14, amended: every call of encrypt_secret puts the IV the random source
\* gave it first in the envelope, so two calls with the same plaintext and
\* the same key give different envelopes whenever their IVs differ; nothing
\* keeps two draws of the random source apart, and equal IVs give equal
\* envelopes.
C14_EnvelopeDiffersWithIv ==
    \A i, j \in 1..Len(calls) :
        /\ Len(calls[i].iv) = BLOCK_SIZE
        /\ Slice(calls[i].blob, 1, BLOCK_SIZE) = calls[i].iv
        /\ SameKeyAndPlaintext(i, j) =>
              ((calls[i].blob = calls[j].blob) <=> (calls[i].iv = calls[j].iv))

\* the same plaintext was encrypted twice under the same key with two IVs
C14_Witness ==
    \E i, j \in 1..Len(calls) :
        /\ i < j
        /\ SameKeyAndPlaintext(i, j)
        /\ calls[i].iv # calls[j].iv
        /\ calls[i].blob # calls[j].blob

\* How a read ends, as a function of the bytes read, the password entered,
\* the answer of the time source and the zone of the machine: the error of
\* the first gate that does not pass, or Released.  No clock reading of the
\* machine is among the arguments.
ExpectedOutcome ==
    IF GateFails("size") THEN GateError("size")
    ELSE IF GateFails("mac") THEN GateError("mac")
    ELSE IF GateFails("split") THEN GateError("split")
    ELSE IF GateFails("expiry") THEN GateError("expiry")
    ELSE IF GateFails("fetch") THEN GateError("fetch")
    ELSE IF GateFails("compare") THEN GateError("compare")
    ELSE IF GateFails("decrypt") THEN GateError("decrypt")
    ELSE IF GateFails("parts") THEN GateError("parts")
    ELSE IF GateFails("base64") THEN GateError("base64")
    ELSE "Released"

\* C15: the outcome of a read, and the output it writes, are determined by
\* the bytes read, the password, the result of the trusted-time fetch and the
\* zone of the machine; the time that is compared with the expiry is the
\* fetched one, so reads that differ only in the reading of the local clock
\* end alike.
C15_OutcomeIgnoresLocalClock ==
    /\ ReadEnded =>
          /\ outcome = ExpectedOutcome
          /\ outcome = "Released" =>
                /\ rd.output_filename =
                      (IF RdExtension # <<>>
                       THEN RdStem \o DecryptedSuffix \o <<DOT>> \o RdExtension
                       ELSE RdStem \o DecryptedSuffix)
                /\ rd.file_content = B64Decode(RdThird).val
    /\ rd.now = (IF rd.fetch = "ok" THEN DtShift(rd.tx, rd.tz) ELSE RdInit.now)

\* a read was decided, after its expiry, on the fetched time of a machine in
\* the zone +1h
C15_Witness ==
    /\ ReadEnded /\ rd.fetch = "ok" /\ rd.tz = 3600
    /\ outcome = "Released"
    /\ rd.now = DtShift(rd.tx, rd.tz)

\* the envelope and the tag write_lockbox computed for the lockbox saved with
\* the record w: encrypt_secret of its payload, and the MAC of its message
WrittenEnvelope(w) ==
    encrypt_secret(w.filename_base \o <<COLON>> \o w.extension \o <<COLON>>
                       \o B64Encode(w.file_content),
                   SHA256(Utf8Encode(w.password) \o EncSuffix), w.iv)
WrittenTag(w) ==
    HMACDigest(issued, SHA256(Utf8Encode(w.password) \o MacSuffix),
               w.expiry_str \o <<NEWLINE>> \o WrittenEnvelope(w))

\* C16: codec round trip.  From the bytes write_lockbox saved, read_lockbox
\* takes the tag as the last 32 bytes and, once the tag verified, the expiry
\* string as all that precedes the first newline and the envelope (IV and
\* ciphertext) as all between that newline and the tag, also when the IV
\* holds newline bytes; decrypt_secret then takes the first 16 bytes of the
\* envelope as IV and recovers the payload text.
C16_CodecRoundTrip ==
    IntactRead =>
        LET w == written[rd.name]
        IN  /\ ~NoNewline /\ CountOf(w.expiry_str, NEWLINE, 1) = 0
            /\ Has("size") =>
                  /\ rd.tag = WrittenTag(w)
                  /\ rd.msg = w.expiry_str \o <<NEWLINE>> \o WrittenEnvelope(w)
            /\ (SamePassword /\ (Has("split") \/ pc = "split")) => TagValid
            /\ Has("split") =>
                  /\ gates[Len(gates)] \in {"split", "expiry"} => pc # "menu"
                  /\ rd.expiry_line = w.expiry_str
                  /\ rd.encrypted_blob = WrittenEnvelope(w)
                  /\ Slice(rd.encrypted_blob, 1, BLOCK_SIZE) = w.iv
            /\ Has("decrypt") =>
                  /\ outcome # "DecryptionError"
                  /\ rd.decrypted_value =
                        w.filename_base \o <<COLON>> \o w.extension \o <<COLON>>
                            \o B64Encode(w.file_content)

\* a lockbox whose IV holds a newline byte was read and decrypted
C16_Witness ==
    /\ IntactRead /\ SamePassword /\ Has("decrypt")
    /\ CountOf(written[rd.name].iv, NEWLINE, 1) > 0
    /\ CountOf(rd.encrypted_blob, NEWLINE, 1) > 0
    /\ rd.expiry_line = written[rd.name].expiry_str

\* the encryption key that belongs to the password entered at the read prompt
EnteredEncKey == SHA256(Utf8Encode(rd.password) \o EncSuffix)

\* the bytes the ciphertext of the file read decrypts to, before unpadding
RdPadded ==
    CBCDecrypt(EnteredEncKey, Slice(RdBlob, 1, BLOCK_SIZE),
               Slice(RdBlob, BLOCK_SIZE + 1, Len(RdBlob)))

\* the ways in which the envelope of the file read cannot be decrypted
EnvelopeShort == Len(RdBlob) < BLOCK_SIZE
CiphertextEmpty == Len(RdBlob) = BLOCK_SIZE
CiphertextRagged == Len(RdBlob) > BLOCK_SIZE /\ Len(RdBlob) % BLOCK_SIZE # 0
PaddingInvalid ==
    /\ Len(RdBlob) > BLOCK_SIZE /\ Len(RdBlob) % BLOCK_SIZE = 0
    /\ LET k == RdPadded[Len(RdPadded)]
       IN  \/ k < 1 \/ k > BLOCK_SIZE
           \/ \E i \in (Len(RdPadded) - k + 1)..Len(RdPadded) : RdPadded[i] # k
NotUtf8 ==
    /\ Len(RdBlob) > BLOCK_SIZE /\ Len(RdBlob) % BLOCK_SIZE = 0
    /\ ~PaddingInvalid
    /\ ~Utf8Decode(Slice(RdPadded, 1, Len(RdPadded) - RdPadded[Len(RdPadded)])).ok

Undecryptable ==
    EnvelopeShort \/ CiphertextEmpty \/ CiphertextRagged \/ PaddingInvalid \/ NotUtf8

\* C17: when the MAC verified and the expiry has passed but the envelope
\* cannot be decrypted (it is shorter than 16 bytes, its ciphertext is empty
\* or no multiple of 16 bytes long, the padding is invalid, or the bytes are
\* not UTF-8), the read ends in the decryption error at the decryption: it
\* goes no further, and no output file is written.
C17_UndecryptableEnvelope ==
    /\ (Has("decrypt") /\ Undecryptable) =>
          /\ TagValid /\ rd.fetch = "ok" /\ ~DtLess(rd.tx, ExpiryUtc)
          /\ pc = "menu" /\ outcome = "DecryptionError"
          /\ gates[Len(gates)] = "decrypt"
          /\ rd.decrypted_value = <<>>
          /\ NoOutput
    /\ outcome = "DecryptionError" => (Has("decrypt") /\ Undecryptable)

\* a read ended in the decryption error on an invalid padding
C17_Witness ==
    /\ ReadEnded /\ outcome = "DecryptionError"
    /\ PaddingInvalid
    /\ NoOutput

\* s is a base64 encoding: characters of the alphabet only, in groups of
\* four, the last group ending in at most two '='
IsBase64(s) ==
    /\ Len(s) % 4 = 0
    /\ \A i \in 1..Len(s) :
          \/ B64Val(s[i]) < 64
          \/ /\ s[i] = B64PAD
             /\ i > Len(s) - 2
             /\ \A j \in i..Len(s) : s[j] = B64PAD

\* C18: after a successful decryption and three-part split, a third part
\* that is not a valid base64 encoding (wrong padding or length, or
\* characters outside the alphabet) ends the read with the format error, and
\* no output file is written.
C18_InvalidBase64Rejected ==
    (ReadEnded /\ Has("base64") /\ ~IsBase64(RdThird)) =>
        /\ outcome = "FormatError"
        /\ NoOutput

=============================================================================
